---------------------------- MODULE Spec2Model ----------------------------
(***************************************************************************)
(* A model of bn-goloader (src/gohelpers.py): the .gopclntab walk that     *)
(* names Go functions (FunctionRenamer.rename_functions), the newproc      *)
(* call-site scanner (NewProcRenamer.rename) and the two name sanitizers.  *)
(*                                                                         *)
(* The binary view is modelled at byte level: mem maps every mapped        *)
(* address to a byte, pointers are decoded little-endian, strings are      *)
(* sequences of ASCII codes read up to the first NUL.                      *)
(***************************************************************************)
EXTENDS Integers, Sequences, FiniteSets, TLC

VARIABLES
    \* ---- the binary view (bv) -------------------------------------------
    ptr_size,     \* bv.platform.arch.address_size
    sections,     \* bv.sections: section name -> start address
    mem,          \* the image: mapped address -> byte
    functions,    \* addresses at which the database holds a function
    symbols,      \* the database's symbols: address -> [type, name]
    data_vars,    \* addresses at which the database holds a data variable
    img,          \* how the image was built (observation only)
    \* ---- FunctionRenamer.rename_functions -------------------------------
    pc,           \* "idle" | "locate" | "header" | "loop" | "done" | "crashed"
    base_addr, size, end_addr, addr, renamed,
    log,          \* the info / warn / alert records written so far
    \* ---- history of the runs (observation only) -------------------------
    run,          \* number of the current rename_functions run
    visited,      \* the table addresses the loop body was entered with
    named,        \* the entries that got a function symbol: [addr, func_addr]
    created,      \* the addresses at which this run created a function
    snap,         \* the database as the first run left it
    \* ---- NewProcRenamer.rename ------------------------------------------
    np_pc,        \* "idle" | "start" | "scan" | "done" | "crashed"
    il,           \* low level IL: address -> instruction
    xrefs,        \* code references to go.runtime.newproc still to scan
    np_inst,      \* the local inst, which outlives a site's pass
    np_renamed,
    sites,        \* the sites scanned so far, with what the scan saw there
    \* ---- the sanitizers, applied to chosen inputs -----------------------
    san_in, san_out

bvVars  == <<ptr_size, sections, mem, functions, symbols, data_vars, img>>
rfVars  == <<pc, base_addr, size, end_addr, addr, renamed, log>>
hisVars == <<run, visited, named, created, snap>>
npVars  == <<np_pc, il, xrefs, np_inst, np_renamed, sites>>
sanVars == <<san_in, san_out>>
vars    == <<bvVars, rfVars, hisVars, npVars, sanVars>>

---------------------------------------------------------------------------
(* Python values *)

\* Python's None, where the code gets an address or a number otherwise.
None == -1

Min(S) == CHOOSE x \in S : \A y \in S : x <= y

---------------------------------------------------------------------------
(* Names: sequences of ASCII codes *)

\* "go."
GOFUNC_PREFIX == <<103, 111, 46>>

\* name.replace(" ", "")
RECURSIVE santize_gofunc_name(_)
santize_gofunc_name(name) ==
    IF name = <<>> THEN <<>>
    ELSE IF Head(name) = 32 THEN santize_gofunc_name(Tail(name))
         ELSE <<Head(name)>> \o santize_gofunc_name(Tail(name))

\* the character class [a-zA-Z0-9\.]
IsWordChar(c) == c \in (48..57) \cup (65..90) \cup (97..122) \cup {46}

\* _RE_REPLACE_UNDERSCORE.sub("_", name): every character outside the class
\* becomes one "_" (95), one by one.
ReplaceUnderscore(name) ==
    [i \in 1..Len(name) |-> IF IsWordChar(name[i]) THEN name[i] ELSE 95]

\* _RE_COMPRESS_UNDERSCORE.sub("_", name): every leftmost-longest match of
\* "__+" (two or more underscores) becomes one "_".
RECURSIVE SkipUnderscores(_)
SkipUnderscores(s) ==
    IF s # <<>> /\ Head(s) = 95 THEN SkipUnderscores(Tail(s)) ELSE s

RECURSIVE CompressUnderscore(_)
CompressUnderscore(s) ==
    IF s = <<>> THEN <<>>
    ELSE IF Len(s) >= 2 /\ s[1] = 95 /\ s[2] = 95
         THEN <<95>> \o CompressUnderscore(SkipUnderscores(s))
         ELSE <<Head(s)>> \o CompressUnderscore(Tail(s))

\* A slip a rewrite could make: the compression pass is left out.
sanitize_var_name_nocompress(name) == ReplaceUnderscore(name)

sanitize_var_name(name) == CompressUnderscore(ReplaceUnderscore(name))

---------------------------------------------------------------------------
(* The host's reads of the image *)

Mapped(a, n) == \A i \in 0..(n - 1) : (a + i) \in DOMAIN mem

\* BinaryReader.read32 / read64 after seek(a): the little-endian value of
\* the n bytes at a, None when they are not all mapped.
RECURSIVE DecodeLE(_, _)
DecodeLE(a, n) == IF n = 0 THEN 0 ELSE mem[a] + 256 * DecodeLE(a + 1, n - 1)

ReadLE(a, n) == IF Mapped(a, n) THEN DecodeLE(a, n) ELSE None

\* get_pointer_at(at_addr, size): "raise" stands for the ValueError.
get_pointer_at(at_addr, sz) ==
    LET w == IF sz = None THEN ptr_size ELSE sz
    IN  IF w = 8 THEN [raised |-> FALSE, val |-> ReadLE(at_addr, 8)]
        ELSE IF w = 4 THEN [raised |-> FALSE, val |-> ReadLE(at_addr, 4)]
        ELSE [raised |-> TRUE, val |-> None]

\* get_pointer_at_virt(addr): bv.read returns the mapped bytes it could read;
\* anything but 4 or 8 of them raises.
get_pointer_at_virt(a) ==
    IF ptr_size \in {4, 8} /\ Mapped(a, ptr_size)
    THEN [raised |-> FALSE, val |-> ReadLE(a, ptr_size)]
    ELSE [raised |-> TRUE, val |-> None]

\* get_section_by_name(section_name): the section's start, or None.
get_section_by_name(section_name) ==
    IF section_name \in DOMAIN sections THEN sections[section_name] ELSE None

\* The signature rename_functions searches for: fb ff ff ff 00 00.
Pattern == <<251, 255, 255, 255, 0, 0>>

MatchesAt(a, pattern) ==
    /\ Mapped(a, Len(pattern))
    /\ \A i \in 1..Len(pattern) : mem[a + i - 1] = pattern[i]

\* bv.find_next_data(start, pattern): the first address at or after start
\* where the pattern occurs, None when there is none.  (The variant in
\* front answers start itself when there is none.)
find_next_data_nofail(start, pattern) ==
    LET hits == {a \in DOMAIN mem : a >= start /\ MatchesAt(a, pattern)}
    IN  IF hits = {} THEN start ELSE Min(hits)

find_next_data(start, pattern) ==
    LET hits == {a \in DOMAIN mem : a >= start /\ MatchesAt(a, pattern)}
    IN  IF hits = {} THEN None ELSE Min(hits)

\* bv.get_ascii_string_at(a): the ASCII bytes from a up to the first NUL;
\* None when a is not mapped, the string is empty or it is not terminated.
RECURSIVE AsciiRun(_)
AsciiRun(a) ==
    IF a \in DOMAIN mem /\ mem[a] \in 1..127 THEN <<mem[a]>> \o AsciiRun(a + 1)
    ELSE <<>>

get_ascii_string_at(a) ==
    LET s == AsciiRun(a)
    IN  IF s # <<>> /\ (a + Len(s)) \in DOMAIN mem /\ mem[a + Len(s)] = 0
        THEN [found |-> TRUE, value |-> s]
        ELSE [found |-> FALSE, value |-> <<>>]

---------------------------------------------------------------------------
(* The database *)

get_function_at(a) == a \in functions

\* bv.define_user_symbol(Symbol(type, a, name, name)): the symbol at a is
\* replaced.
define_user_symbol(syms, type, a, name) ==
    [x \in DOMAIN syms \cup {a} |->
        IF x = a THEN [type |-> type, name |-> name] ELSE syms[x]]

get_symbol_at(a) == a \in DOMAIN symbols

---------------------------------------------------------------------------
(* The images the runs are checked on *)

\* Bytes in front of the table.
PreLen == 16
\* Table entries an image holds at most.
MaxEntries == 2
\* Times rename_functions is run on one image.
MaxRuns == 2

\* 2 is an address size get_pointer_at does not support.
PtrSizes == {2, 4, 8}

\* "ab", "a b", "abc"; the empty sequence is a name that is NUL at once.
Names == {<<>>, <<97, 98>>, <<97, 32, 98>>, <<97, 98, 99>>}

\* 0x2000, 0x2100, ...
FuncAddr(i) == 8192 + 256 * (i - 1)

\* struct.pack of v as w little-endian bytes.
RECURSIVE LE(_, _)
LE(v, w) == IF w = 0 THEN <<>> ELSE <<v % 256>> \o LE(v \div 256, w - 1)

RECURSIVE Flatten(_)
Flatten(ss) == IF ss = <<>> THEN <<>> ELSE Head(ss) \o Flatten(Tail(ss))

RECURSIVE SumLen(_, _)
SumLen(names, k) == IF k = 0 THEN 0 ELSE Len(names[k]) + 1 + SumLen(names, k - 1)

\* Offsets, from the table's base, of the parts of a table of n entries.
EntryOff(p, i)         == 8 + p + (i - 1) * 2 * p
StructOff(p, n, i)     == 8 + p + n * 2 * p + (i - 1) * (p + 8)
NameOff(p, n, names, i) == 8 + p + n * 2 * p + n * (p + 8) + SumLen(names, i - 1)

\* The bytes of an image: PreLen bytes (when decoy, an earlier, empty table:
\* the signature at address 0 and a size field of 0), then the table: magic,
\* quantum, pointer size; the size field; n entries {func_addr,
\* entry_offset}; n function records {entry, name offset, args}; n
\* NUL-terminated names.
ImageBytes(p, n, rawSize, names, faddrs, magic, decoy) ==
    [i \in 1..PreLen |-> IF decoy /\ i <= 6 THEN Pattern[i] ELSE 0]
    \o (IF magic THEN Pattern ELSE <<250, 255, 255, 255, 0, 0>>) \o <<1, p>>
    \o LE(rawSize, p)
    \o Flatten([i \in 1..n |-> LE(faddrs[i], p) \o LE(StructOff(p, n, i), p)])
    \o Flatten([i \in 1..n |-> LE(faddrs[i], p) \o LE(NameOff(p, n, names, i), 4)
                                \o LE(0, 4)])
    \o Flatten([i \in 1..n |-> names[i] \o <<0>>])

\* The addresses an image leaves unmapped.
Hole(kind, p, n, names) ==
    CASE kind = "none"    -> {}
      [] kind = "size"    -> {PreLen + 8}
      [] kind = "entry1"  -> {PreLen + EntryOff(p, 1)}
      [] kind = "struct1" -> {PreLen + StructOff(p, n, 1) + p}
      [] kind = "name1"   -> {PreLen + NameOff(p, n, names, 1)}

\* Holes are tried on the tables whose size field suits the loop.
HoleKinds(n, mode) ==
    IF mode = "bytes" THEN {"none"}
    ELSE IF n = 0 THEN {"none", "size"}
    ELSE {"none", "size", "entry1", "struct1", "name1"}

\* The size field of a table of n entries: the count the loop's range is
\* built for (n + 1), or the byte size of the n entries (n * 2 * p).
RawSize(mode, p, n) == IF mode = "count" THEN n + 1 ELSE n * 2 * p

\* Every entry has its own function, or all entries name the first one.
FuncAddrChoices(n, hole) ==
    {[i \in 1..n |-> FuncAddr(i)]}
    \cup (IF hole = "none" THEN {[i \in 1..n |-> FuncAddr(1)]} ELSE {})

\* An unsupported address size is tried on the empty table only.
EntryCounts(p) == IF p \in {4, 8} THEN 0..MaxEntries ELSE {0}

Image(m) ==
    LET bytes == ImageBytes(m.p, m.n, RawSize(m.mode, m.p, m.n), m.names,
                            m.faddrs, m.magic, m.decoy)
    IN  [a \in (0..(Len(bytes) - 1)) \ Hole(m.hole, m.p, m.n, m.names) |->
            bytes[a + 1]]

NoSnap == [functions |-> {}, symbols |-> <<>>]

\* The parts of the state a rename_functions specification does not use.
NewProcIdle ==
    /\ np_pc = "idle" /\ il = <<>> /\ xrefs = <<>> /\ np_inst = <<>>
    /\ np_renamed = 0 /\ sites = <<>>
SanitizeIdle ==
    /\ san_in = <<>> /\ san_out = <<>>
RenameIdle ==
    /\ pc = "idle" /\ base_addr = None /\ size = None /\ end_addr = None
    /\ addr = None /\ renamed = 0
    /\ run = 0 /\ visited = <<>> /\ named = <<>> /\ created = {} /\ snap = NoSnap

Init ==
    /\ \E p \in PtrSizes, mode \in {"count", "bytes"},
          magic \in BOOLEAN, decoy \in BOOLEAN, sect \in BOOLEAN :
          \E n \in EntryCounts(p) :
          \E names \in [1..n -> Names], hole \in HoleKinds(n, mode),
             pre \in SUBSET {FuncAddr(1)} :
          \E faddrs \in FuncAddrChoices(n, hole) :
             /\ img = [p |-> p, n |-> n, mode |-> mode, names |-> names,
                       faddrs |-> faddrs, magic |-> magic, decoy |-> decoy,
                       sect |-> sect, hole |-> hole, pre |-> pre]
             /\ ptr_size = p
             /\ mem = Image(img)
             /\ sections = IF sect THEN [s \in {".gopclntab"} |-> PreLen]
                           ELSE [s \in {".text"} |-> 4096]
             /\ functions = pre
    /\ symbols = <<>> /\ data_vars = {}
    /\ pc = "locate" /\ base_addr = None /\ size = None /\ end_addr = None
    /\ addr = None /\ renamed = 0 /\ log = <<>>
    /\ run = 1 /\ visited = <<>> /\ named = <<>> /\ created = {} /\ snap = NoSnap
    /\ NewProcIdle /\ SanitizeIdle

---------------------------------------------------------------------------
(* FunctionRenamer.rename_functions *)

Info(what, n) == [level |-> "info", what |-> what, n |-> n]

\* The section's start when the section exists, else the first occurrence
\* of the signature from address 0 (None when there is none).
LocateBase_scanfirst ==
    LET found == find_next_data(0, Pattern)
    IN  IF found = None THEN get_section_by_name(".gopclntab") ELSE found

LocateBase ==
    LET gopclntab == get_section_by_name(".gopclntab")
    IN  IF gopclntab = None THEN find_next_data(0, Pattern) ELSE gopclntab

\* renamed = 0, the first log line and the choice of base_addr; without a
\* table the alert is logged and the run returns.
Locate ==
    /\ pc = "locate"
    /\ renamed' = 0
    /\ base_addr' = LocateBase
    /\ IF base_addr' = None
       THEN /\ log' = log \o <<Info("renaming", 0),
                               [level |-> "alert", what |-> "no .gopclntab"]>>
            /\ pc' = "done"
       ELSE /\ log' = Append(log, Info("renaming", 0))
            /\ pc' = "header"
    /\ UNCHANGED <<size, end_addr, addr>>
    /\ UNCHANGED <<bvVars, hisVars, npVars, sanVars>>

\* start_addr and end_addr of the loop's range.
StartAddr(base) == (base + 8) + ptr_size
EndAddr(base, sz) == base + (sz * ptr_size * 2)

\* The size read, the "found .gopclntab" line with its entry count, and
\* the bounds of the range.  A size that cannot be read is None, and the
\* division in the log line raises.
ReadHeader ==
    /\ pc = "header"
    /\ LET sz == get_pointer_at(base_addr + 8, None)
       IN  IF sz.raised \/ sz.val = None
           THEN /\ pc' = "crashed"
                /\ size' = sz.val
                /\ UNCHANGED <<end_addr, addr, log>>
           ELSE /\ size' = sz.val
                /\ log' = Append(log, [level |-> "info", what |-> "found",
                                       base |-> base_addr,
                                       entries |-> sz.val \div (ptr_size * 2)])
                /\ addr' = StartAddr(base_addr)
                /\ end_addr' = EndAddr(base_addr, sz.val)
                /\ pc' = "loop"
    /\ UNCHANGED <<base_addr, renamed>>
    /\ UNCHANGED <<bvVars, hisVars, npVars, sanVars>>

\* len(name) > 2, on the name as read.
AcceptName(name) == Len(name) > 2

\* GOFUNC_PREFIX + santize_gofunc_name(name)
FuncSymbolName(name) == GOFUNC_PREFIX \o santize_gofunc_name(name)

\* A slip: the prefix is put in front of the name the address already has.
NameFunction_onexisting(syms, func_addr, name) ==
    define_user_symbol(syms, "FunctionSymbol", func_addr,
        IF func_addr \in DOMAIN syms THEN GOFUNC_PREFIX \o syms[func_addr].name
        ELSE FuncSymbolName(name))

\* The function symbol of the prefixed, sanitized name, defined at func_addr.
NameFunction(syms, func_addr, name) ==
    define_user_symbol(syms, "FunctionSymbol", func_addr, FuncSymbolName(name))

\* What the loop body finds at table address a, up to the name.
ReadEntry(a) ==
    LET func_addr    == get_pointer_at(a, None).val
        entry_offset == get_pointer_at(a + ptr_size, None).val
    IN  IF func_addr = None \/ entry_offset = None
        THEN [kind |-> "raise"]       \* "{:x}".format(None)
        ELSE LET name_str_offset ==
                     get_pointer_at(base_addr + entry_offset + ptr_size, 4).val
             IN  IF name_str_offset = None
                 THEN [kind |-> "raise"]   \* base_addr + None
                 ELSE LET name_addr == base_addr + name_str_offset
                          name == get_ascii_string_at(name_addr)
                      IN  [kind |-> IF name.found THEN "name" ELSE "noname",
                           func_addr |-> func_addr, name_addr |-> name_addr,
                           name |-> name.value]

\* The counter after an entry whose name was accepted or not.
Count_always(n, accepted) == n + 1
Count(n, accepted) == IF accepted THEN n + 1 ELSE n

\* One pass of the loop body, for the range's next address.
Entry ==
    /\ pc = "loop" /\ addr < end_addr
    /\ visited' = Append(visited, addr)
    /\ LET e == ReadEntry(addr)
       IN  CASE e.kind = "raise" ->
                  /\ pc' = "crashed"
                  /\ UNCHANGED <<addr, renamed, log, functions, symbols,
                                 named, created>>
             [] e.kind = "noname" ->
                  /\ addr' = addr + 2 * ptr_size
                  /\ UNCHANGED <<pc, renamed, log, functions, symbols,
                                 named, created>>
             [] e.kind = "name" ->
                  /\ addr' = addr + 2 * ptr_size
                  /\ pc' = pc
                  /\ functions' = IF get_function_at(e.func_addr) THEN functions
                                  ELSE functions \cup {e.func_addr}
                  /\ created' = IF get_function_at(e.func_addr) THEN created
                                ELSE created \cup {e.func_addr}
                  /\ renamed' = Count(renamed, AcceptName(e.name))
                  /\ IF AcceptName(e.name)
                     THEN /\ symbols' = NameFunction(symbols, e.func_addr, e.name)
                          /\ named' = Append(named, [addr |-> addr,
                                                     func_addr |-> e.func_addr])
                          /\ log' = log
                     ELSE /\ log' = Append(log,
                                 [level |-> "warn", what |-> "not using",
                                  name |-> e.name, func_addr |-> e.func_addr,
                                  addr |-> addr, name_addr |-> e.name_addr])
                          /\ UNCHANGED <<symbols, named>>
    /\ UNCHANGED <<base_addr, size, end_addr>>
    /\ UNCHANGED <<ptr_size, sections, mem, data_vars, img>>
    /\ UNCHANGED <<run, snap, npVars, sanVars>>

\* The range is exhausted: the "renamed N go functions" line.
Finish ==
    /\ pc = "loop" /\ addr >= end_addr
    /\ log' = Append(log, Info("renamed", renamed))
    /\ pc' = "done"
    /\ UNCHANGED <<base_addr, size, end_addr, addr, renamed>>
    /\ UNCHANGED <<bvVars, hisVars, npVars, sanVars>>

\* The command is invoked again on the same view: a fresh run.
Rerun ==
    /\ pc \in {"done", "crashed"} /\ run < MaxRuns
    /\ run' = run + 1
    /\ snap' = IF run = 1 THEN [functions |-> functions, symbols |-> symbols]
               ELSE snap
    /\ pc' = "locate" /\ base_addr' = None /\ size' = None /\ end_addr' = None
    /\ addr' = None /\ renamed' = 0 /\ log' = <<>>
    /\ visited' = <<>> /\ named' = <<>> /\ created' = {}
    /\ UNCHANGED <<bvVars, npVars, sanVars>>

Next == Locate \/ ReadHeader \/ Entry \/ Finish \/ Rerun

Spec == Init /\ [][Next]_vars

---------------------------------------------------------------------------
(* NewProcRenamer.rename *)

\* Cross-references an image holds at most.
MaxSites == 2

\* "go.runtime.newproc"
NEWPROC_NAME == <<103, 111, 46, 114, 117, 110, 116, 105, 109, 101, 46,
                  110, 101, 119, 112, 114, 111, 99>>
\* "fptr_"
FPTR_PREFIX == <<102, 112, 116, 114, 95>>

\* The local inst before its first assignment.
Unbound == [operation |-> "unbound", src |-> 0]

\* bv.get_symbol_by_raw_name(name): the address of the symbol, or None.
get_symbol_by_raw_name(name) ==
    LET at == {a \in DOMAIN symbols : symbols[a].name = name}
    IN  IF at = {} THEN None ELSE Min(at)

\* The hexadecimal digits of a, as the host prints them in sub_<a>.
RECURSIVE Hex(_)
Hex(a) ==
    LET d == a % 16
        c == IF d < 10 THEN 48 + d ELSE 87 + d
    IN  IF a < 16 THEN <<c>> ELSE Hex(a \div 16) \o <<c>>

\* tfn.name: the function's symbol, or the host's default name.
FunctionName(a) ==
    IF a \in DOMAIN symbols THEN symbols[a].name ELSE <<115, 117, 98, 95>> \o Hex(a)

\* The for/try loop that looks for one more instruction in front of the
\* call: up to 6 tries, j raised before each; an address without an
\* instruction raises IndexError and the next is tried.
RECURSIVE Probe(_, _, _)
Probe(at, j, i) ==
    IF (at - (j + 1)) \in DOMAIN il
    THEN [found |-> TRUE, inst |-> il[at - (j + 1)], j |-> j + 1]
    ELSE IF i = 6 THEN [found |-> FALSE, inst |-> Unbound, j |-> j + 1]
    ELSE Probe(at, j + 1, i + 1)

\* The while loop: two instructions, each the one its tries found or, when
\* no try found one, the value inst still has.
CollectParams(at, inst0) ==
    LET p1 == Probe(at, 1, 1)
        i1 == IF p1.found THEN p1.inst ELSE inst0
        p2 == Probe(at, p1.j, 1)
        i2 == IF p2.found THEN p2.inst ELSE i1
    IN  <<i1, i2>>

\* skip = True; for inst in params: if inst.operation != LLIL_PUSH: skip = True
RECURSIVE SkipFold(_, _)
SkipFold(params, skip) ==
    IF params = <<>> THEN skip
    ELSE SkipFold(Tail(params),
                  IF Head(params).operation # "LLIL_PUSH" THEN TRUE ELSE skip)

SkipSite(params) == SkipFold(params, TRUE)

\* What the scan of the cross-reference at address at does.
SiteOutcome(at, inst0) ==
    LET callinst == il[at]
        params   == CollectParams(at, inst0)
        fptr     == params[2].src
    IN  IF callinst.operation # "LLIL_CALL"
        THEN [kind |-> "not call", inst |-> inst0, params |-> <<>>]
        ELSE IF params[1] = Unbound
        THEN [kind |-> "raise", inst |-> inst0, params |-> <<>>]
        ELSE IF SkipSite(params)
        THEN [kind |-> "skip", inst |-> params[2], params |-> params]
        ELSE IF fptr = 0 \/ get_symbol_at(fptr)
        THEN [kind |-> "no fptr", inst |-> params[2], params |-> params]
        ELSE LET a == get_pointer_at_virt(fptr)
             IN  IF a.raised
                 THEN [kind |-> "raise", inst |-> params[2], params |-> params]
                 ELSE IF ~get_function_at(a.val)
                 THEN [kind |-> "no function", inst |-> params[2],
                       params |-> params]
                 ELSE [kind |-> "define", inst |-> params[2], params |-> params,
                       a |-> a.val,
                       varname |-> FPTR_PREFIX \o sanitize_var_name(FunctionName(a.val))]

\* renamed = 0, the lookup of go.runtime.newproc and of its code
\* references; without the symbol, newprocfn.address raises.
NPStart ==
    /\ np_pc = "start"
    /\ LET newprocfn == get_symbol_by_raw_name(NEWPROC_NAME)
       IN  IF newprocfn = None
           THEN np_pc' = "crashed" /\ xrefs' = xrefs
           ELSE np_pc' = "scan" /\ xrefs' = img.xrefs
    /\ np_renamed' = 0
    /\ UNCHANGED <<il, np_inst, sites, log>>
    /\ UNCHANGED <<bvVars, pc, base_addr, size, end_addr, addr, renamed>>
    /\ UNCHANGED <<hisVars, sanVars>>

\* One pass of the loop over the cross-references.
ScanSite ==
    /\ np_pc = "scan" /\ xrefs # <<>>
    /\ LET at == Head(xrefs)
           o  == SiteOutcome(at, np_inst)
       IN  /\ np_inst' = o.inst
           /\ sites' = Append(sites,
                  [addr |-> at, is_call |-> il[at].operation = "LLIL_CALL",
                   params |-> o.params,
                   had_symbol |-> o.params # <<>> /\ get_symbol_at(o.params[2].src)])
           /\ IF o.kind = "raise"
              THEN np_pc' = "crashed" /\ xrefs' = xrefs
              ELSE np_pc' = np_pc /\ xrefs' = Tail(xrefs)
           /\ IF o.kind = "define"
              THEN /\ data_vars' = data_vars \cup {o.a}
                   /\ symbols' = define_user_symbol(symbols, "DataSymbol", o.a,
                                                    o.varname)
                   /\ np_renamed' = np_renamed + 1
              ELSE UNCHANGED <<data_vars, symbols, np_renamed>>
    /\ UNCHANGED <<il, log, ptr_size, sections, mem, functions, img>>
    /\ UNCHANGED <<pc, base_addr, size, end_addr, addr, renamed>>
    /\ UNCHANGED <<hisVars, sanVars>>

\* The "renamed N function pointers" line.
NPFinish ==
    /\ np_pc = "scan" /\ xrefs = <<>>
    /\ log' = Append(log, Info("renamed fptrs", np_renamed))
    /\ np_pc' = "done"
    /\ UNCHANGED <<il, xrefs, np_inst, np_renamed, sites>>
    /\ UNCHANGED <<bvVars, pc, base_addr, size, end_addr, addr, renamed>>
    /\ UNCHANGED <<hisVars, sanVars>>

(* The images the scan is checked on *)

\* 0x1f00: go.runtime.newproc; 0x2000: a function, named "go.(*T).f";
\* 0x2100: no function.
NewprocAddr == FuncAddr(0)
TargetName == <<103, 111, 46, 40, 42, 84, 41, 46, 102>>

\* The data words the pushes name: C1 points at the function, C2 does not.
DataAddr(i) == 64 + 16 * (i - 1)
DataC1 == DataAddr(1)
DataC2 == DataAddr(2)

CallAddr(k) == 256 * k

\* A site: the instruction at the xref, the one 5 bytes before it (near)
\* and the one 10 bytes before it (far); "missing" leaves the address
\* without an instruction.
SiteKinds ==
    {[call |-> FALSE, near |-> "push", far |-> "c1"]}
    \cup [call : {TRUE}, near : {"push", "mov", "missing"},
          far : {"c1", "c2", "zero", "mov", "missing"}]

FarInst(kind) ==
    CASE kind = "c1"   -> [operation |-> "LLIL_PUSH", src |-> DataC1]
      [] kind = "c2"   -> [operation |-> "LLIL_PUSH", src |-> DataC2]
      [] kind = "zero" -> [operation |-> "LLIL_PUSH", src |-> 0]
      [] OTHER         -> [operation |-> "LLIL_SET_REG", src |-> DataC1]

NearInst(kind) ==
    IF kind = "push" THEN [operation |-> "LLIL_PUSH", src |-> 8]
    ELSE [operation |-> "LLIL_SET_REG", src |-> 8]

SiteIL(ss) ==
    LET at(k) == CallAddr(k)
        dom == UNION {{at(k)}
                      \cup (IF ss[k].near = "missing" THEN {} ELSE {at(k) - 5})
                      \cup (IF ss[k].far = "missing" THEN {} ELSE {at(k) - 10})
                      : k \in 1..Len(ss)}
    IN  [a \in dom |->
           LET k == CHOOSE k \in 1..Len(ss) : a \in {at(k), at(k) - 5, at(k) - 10}
           IN  IF a = at(k)
               THEN [operation |-> IF ss[k].call THEN "LLIL_CALL" ELSE "LLIL_JUMP",
                     src |-> NewprocAddr]
               ELSE IF a = at(k) - 5 THEN NearInst(ss[k].near)
               ELSE FarInst(ss[k].far)]

DataMem(p) ==
    LET bytes == LE(FuncAddr(1), p) \o LE(0, 16 - p) \o LE(FuncAddr(2), p)
    IN  [a \in DataC1..(DataC1 + Len(bytes) - 1) |-> bytes[a - DataC1 + 1]]

InitNewProc ==
    /\ \E p \in {4, 8}, n \in 0..MaxSites, hasNewproc \in BOOLEAN,
          symAtC1 \in BOOLEAN :
          \E ss \in [1..n -> SiteKinds] :
             /\ img = [p |-> p, sites |-> ss,
                       xrefs |-> [k \in 1..n |-> CallAddr(k)]]
             /\ ptr_size = p
             /\ mem = DataMem(p)
             /\ il = SiteIL(ss)
             /\ symbols =
                  [a \in {FuncAddr(1)}
                         \cup (IF hasNewproc THEN {NewprocAddr} ELSE {})
                         \cup (IF symAtC1 THEN {DataC1} ELSE {}) |->
                      IF a = NewprocAddr
                      THEN [type |-> "FunctionSymbol", name |-> NEWPROC_NAME]
                      ELSE IF a = DataC1
                      THEN [type |-> "DataSymbol", name |-> <<120>>]
                      ELSE [type |-> "FunctionSymbol", name |-> TargetName]]
             /\ functions = {FuncAddr(1)}
                            \cup (IF hasNewproc THEN {NewprocAddr} ELSE {})
    /\ sections = [s \in {".text"} |-> 4096]
    /\ data_vars = {}
    /\ np_pc = "start" /\ xrefs = <<>> /\ np_inst = Unbound /\ np_renamed = 0
    /\ sites = <<>> /\ log = <<>>
    /\ RenameIdle /\ SanitizeIdle

NextNewProc == NPStart \/ ScanSite \/ NPFinish

SpecNewProc == InitNewProc /\ [][NextNewProc]_vars

---------------------------------------------------------------------------
(* The sanitizers on chosen names *)

\* Characters a name given to sanitize_var_name holds at most.
MaxNameLen == 4

\* "a", ".", "_", " ", "-"
Alphabet == {97, 46, 95, 32, 45}

NamesUpTo(n) == UNION {[1..k -> Alphabet] : k \in 0..n}

InitSanitize ==
    /\ san_in \in NamesUpTo(MaxNameLen)
    /\ san_out = <<>>
    /\ ptr_size = 4 /\ sections = <<>> /\ mem = <<>> /\ functions = {}
    /\ symbols = <<>> /\ data_vars = {} /\ img = <<>>
    /\ log = <<>>
    /\ RenameIdle /\ NewProcIdle

\* sanitize_var_name, on the name and then on its own result.
SanitizeVarName ==
    /\ Len(san_out) < 2
    /\ san_out' = Append(san_out,
           sanitize_var_name(IF san_out = <<>> THEN san_in
                             ELSE san_out[Len(san_out)]))
    /\ UNCHANGED <<san_in, bvVars, rfVars, hisVars, npVars>>

NextSanitize == SanitizeVarName

SpecSanitize == InitSanitize /\ [][NextSanitize]_vars

---------------------------------------------------------------------------
(* Properties of rename_functions (under Spec) *)

\* The table addresses of the first count entries of the table at base.
TableEntries(base, count) ==
    [i \in 1..count |-> base + 8 + ptr_size + (i - 1) * 2 * ptr_size]

IsPrefix(s, t) == Len(s) <= Len(t) /\ s = SubSeq(t, 1, Len(s))

\* A table whose size field holds the byte size of its entries and that is
\* mapped throughout.
WellFormedBySize == img.mode = "bytes" /\ img.hole = "none" /\ img.n >= 1

\* C1: on a well-formed table whose size field holds raw_size, the walk
\* visits exactly raw_size / (2 * pointer_width) entries, in table order
\* from base_addr + 8 + pointer_width with stride 2 * pointer_width, and
\* ends normally.
C1_WalkVisitsEntryCount ==
    (WellFormedBySize /\ pc \in {"loop", "done", "crashed"}) =>
        LET expected == TableEntries(base_addr, size \div (2 * ptr_size))
        IN  /\ IsPrefix(visited, expected)
            /\ pc # "loop" => (pc = "done" /\ visited = expected)

\* C2: every function symbol a run defines has at least 3 characters after
\* the "go." prefix: the length is measured on the name without its spaces.
C2_SymbolNamesAtLeast3 ==
    \A a \in DOMAIN symbols :
        symbols[a].type = "FunctionSymbol" =>
            /\ IsPrefix(GOFUNC_PREFIX, symbols[a].name)
            /\ Len(symbols[a].name) >= Len(GOFUNC_PREFIX) + 3

\* The step is the pass of an entry whose name was rejected: it logs the
\* "not using function name" warning.
RejectsEntry ==
    /\ Len(log') = Len(log) + 1
    /\ log'[Len(log')].level = "warn"

\* C3: the pass of an entry whose name is rejected leaves the set of
\* functions and the symbols as they were.
C3_RejectedEntryNoMutation ==
    [][RejectsEntry => (functions' = functions /\ symbols' = symbols)]_vars

SignatureOccurs == \E a \in DOMAIN mem : MatchesAt(a, Pattern)

\* C4: base_addr is the start of .gopclntab whenever the section exists;
\* without the section, when the signature occurs, it is the lowest address
\* at which the signature occurs.
C4_BaseAddress ==
    pc \in {"header", "loop", "done", "crashed"} =>
        IF ".gopclntab" \in DOMAIN sections
        THEN base_addr = sections[".gopclntab"]
        ELSE SignatureOccurs =>
                /\ MatchesAt(base_addr, Pattern)
                /\ \A b \in 0..(base_addr - 1) : ~MatchesAt(b, Pattern)

\* The signature occurs twice, there is no section, and the run went on
\* with the first occurrence.
C4_Witness ==
    /\ ~img.sect /\ img.decoy /\ img.magic
    /\ pc = "loop" /\ base_addr = 0

NoTable == ".gopclntab" \notin DOMAIN sections /\ ~SignatureOccurs

\* C5: with neither the section nor the signature the run logs the alert
\* and ends; it reads no size and no entry, creates no function and defines
\* no symbol.
C5_NoTableNoChange ==
    NoTable =>
        /\ pc \in {"locate", "done"}
        /\ functions = img.pre /\ symbols = <<>>
        /\ size = None /\ visited = <<>> /\ renamed = 0
        /\ pc = "done" => log[Len(log)].level = "alert"

\* A run over an image that holds entries, but neither section nor
\* signature, has ended.
C5_Witness == NoTable /\ pc = "done" /\ img.n >= 1

\* C6: an entry whose pointers or name-offset word cannot be read is
\* skipped: the run does not end there, it reaches its "renamed" line, and
\* every later entry with an acceptable name has its symbol.
C6_ReadFailureSkipsEntry ==
    (img.hole \in {"entry1", "struct1"} /\ base_addr = PreLen) =>
        /\ pc # "crashed"
        /\ pc = "done" =>
              /\ log[Len(log)].what = "renamed"
              /\ \A i \in 2..img.n :
                    Len(img.names[i]) > 2 => img.faddrs[i] \in DOMAIN symbols

\* No two entries of the table name the same function address.
DistinctFunctions ==
    \A i, j \in 1..img.n : img.faddrs[i] = img.faddrs[j] => i = j

\* C7: a further run creates no function, and when it has ended the
\* functions and the symbols are those the first run left; on a table whose
\* entries name distinct functions no symbol changes at any point of it.
C7_SecondRunSameDatabase ==
    run >= 2 =>
        /\ created = {} /\ functions = snap.functions
        /\ (pc \in {"done", "crashed"} \/ DistinctFunctions) =>
               symbols = snap.symbols

\* A second run over a table of two named entries has ended.
C7_Witness ==
    /\ run = 2 /\ pc = "done" /\ renamed = 2
    /\ Cardinality(DOMAIN symbols) = 2 /\ snap.functions # img.pre

\* The counter is the number of entries that got a symbol so far, and each
\* of them has its function symbol and a function at its address.
C10_CounterState ==
    /\ renamed = Len(named)
    /\ \A i \in 1..Len(named) :
          /\ named[i].func_addr \in functions
          /\ named[i].func_addr \in DOMAIN symbols
          /\ symbols[named[i].func_addr].type = "FunctionSymbol"

\* The counter does not decrease during a run, and a pass that defines no
\* symbol leaves it as it was.
C10_CounterStep ==
    /\ run' = run => renamed' >= renamed
    /\ (Len(visited') > Len(visited) /\ named' = named) => renamed' = renamed

\* C10: at every point of a run the counter is the number of entries that
\* got a function symbol so far, each of them has a function at its address,
\* the counter never decreases, and a pass that defines no symbol (no name,
\* or a rejected name) leaves it as it was.
C10_Counter == [](C10_CounterState) /\ [][C10_CounterStep]_vars

\* A run has ended that named one entry and rejected another.
C10_Witness ==
    /\ pc = "done" /\ renamed = 1 /\ Len(visited) >= 2
    /\ \E i \in 1..Len(log) : log[i].level = "warn"

---------------------------------------------------------------------------
(* Properties of the call-site scan (under SpecNewProc) *)

\* The site is a call, both collected instructions are pushes, the second
\* push has a non-zero constant that had no symbol, and the pointer read at
\* the constant is the address of a function.
Qualifies(s) ==
    /\ s.is_call
    /\ s.params # <<>>
    /\ \A i \in 1..2 : s.params[i].operation = "LLIL_PUSH"
    /\ s.params[2].src # 0
    /\ ~s.had_symbol
    /\ ~get_pointer_at_virt(s.params[2].src).raised
    /\ get_function_at(get_pointer_at_virt(s.params[2].src).val)

\* C8: every scanned site that qualifies has a data symbol at the constant
\* address C, named "fptr_" and the sanitized name of the function its
\* pointer leads to, and is counted.
C8_QualifyingSiteNamed ==
    \A k \in 1..Len(sites) :
        Qualifies(sites[k]) =>
            LET C == sites[k].params[2].src
                A == get_pointer_at_virt(C).val
            IN  /\ C \in DOMAIN symbols
                /\ symbols[C].type = "DataSymbol"
                /\ symbols[C].name = FPTR_PREFIX \o sanitize_var_name(FunctionName(A))
                /\ np_renamed >= 1

---------------------------------------------------------------------------
(* Properties of sanitize_var_name (under SpecSanitize) *)

RECURSIVE DropRun(_)
DropRun(s) == IF s # <<>> /\ ~IsWordChar(Head(s)) THEN DropRun(Tail(s)) ELSE s

\* The name with every maximal run of characters other than letters,
\* digits and "." replaced by one "_".
RECURSIVE CollapseRuns(_)
CollapseRuns(s) ==
    IF s = <<>> THEN <<>>
    ELSE IF IsWordChar(Head(s)) THEN <<Head(s)>> \o CollapseRuns(Tail(s))
    ELSE <<95>> \o CollapseRuns(DropRun(s))

\* C9: sanitize_var_name gives the name with its runs collapsed, a result
\* without two adjacent underscores, and the same result when applied to
\* its own result.
C9_SanitizeVarName ==
    /\ Len(san_out) >= 1 =>
          /\ san_out[1] = CollapseRuns(san_in)
          /\ \A i \in 1..(Len(san_out[1]) - 1) :
                ~(san_out[1][i] = 95 /\ san_out[1][i + 1] = 95)
    /\ Len(san_out) >= 2 => san_out[2] = san_out[1]

\* "a -a" went through twice and came out as "a_a".
C9_Witness ==
    /\ san_in = <<97, 32, 45, 97>>
    /\ Len(san_out) = 2
    /\ san_out[2] = <<97, 95, 97>>

=============================================================================
